---- MODULE Spec2Model ----
(***************************************************************************)
(* The action-prediction protocol of MAIDesktopNavigationAgent             *)
(* (src/src/mai_desktop_navigation_agent.py): the response parser, the     *)
(* coordinate normalisation, the duplicate-action guard, the rendering of  *)
(* the trajectory into the prompt and the predict cycle with its retries.  *)
(* The response parsers of the one-shot agent and of the HTTP server       *)
(* (mai_desktop_oneshot_agent.py, mai_desktop_http_mcp_server.py) and the  *)
(* executors' dispatch are modelled next to it; CodecSpec applies the      *)
(* parsers and the renderer as functions to a set of response texts.       *)
(* HistorySpec follows one long task of the agent, McpSpec one request to  *)
(* the HTTP server's /mcp endpoint, RunSpec one call of the one-shot       *)
(* agent's run, and ExampleSpec the task loop of the full example          *)
(* (src/examples/desktop_agent_full_example.py) for one instruction.       *)
(*                                                                         *)
(* Numbers.  A JSON number v is held as the integer v * Den, so that every *)
(* value the model reads or computes (scaled integers, mid points of       *)
(* bounding boxes, hundredths of the unit interval and quotients by        *)
(* SCALE_FACTOR) is exact.                                                 *)
(* Texts are sequences of one-character strings.                           *)
(***************************************************************************)
EXTENDS Integers, Sequences, FiniteSets, TLC

VARIABLES
    steps,        \* self.traj_memory.steps
    task_goal,    \* self.traj_memory.task_goal
    pc,           \* position of the caller / of predict: "idle", "loop", "after"
    instruction,  \* predict's argument
    obs,          \* predict's argument
    messages,     \* predict's local: the message list built before the loop
    attempt,      \* predict's loop variable: the failed attempts so far
    thinking,     \* predict's local
    prediction,   \* predict's local
    action_json,  \* predict's local
    ret,          \* what the last predict call returned, NoRet during a call
    pre_steps,    \* history: steps when the current/last cycle began
    pre_goal,     \* history: task_goal when the current/last cycle began
    sent,         \* history: the message list of every model call of the cycle
    cand,         \* history: the action parsed on the successful attempt
    blocked,      \* history: the guard's verdict on cand
    first_instr,  \* history: instruction of the first predict since reset
    first_set,    \* history: the first non-empty instruction since reset
    exhausted,    \* history: all attempts of the current/last cycle failed
    main,         \* the example's task loop: its locals and its position
    mcp,          \* the HTTP server: the request in hand, its response, the desktop
    run           \* the one-shot agent's run: its arguments, its result, the desktop

vars == <<steps, task_goal, pc, instruction, obs, messages, attempt, thinking,
          prediction, action_json, ret, pre_steps, pre_goal, sent, cand,
          blocked, first_instr, first_set, exhausted, main, mcp, run>>

----------------------------------------------------------------------------
(* Bounds of the model *)

MaxSteps == 2

\* the steps of a trajectory that is followed past history_n
MaxHistory == 5

\* the largest scroll amount
MaxAmount == 12

----------------------------------------------------------------------------
(* Numbers and texts *)

SCALE_FACTOR == 999

Den == 200 * SCALE_FACTOR

\* the JSON integer k
Num(k) == k * Den

\* the JSON number h/100
Hundredths(h) == h * (Den \div 100)

Abs(n) == IF n < 0 THEN 0 - n ELSE n

SetMin(S) == CHOOSE m \in S : \A n \in S : m <= n

SetMax(S) == CHOOSE m \in S : \A n \in S : n <= m

\* str.strip(chars)
StripChars(s, chars) ==
    LET keep == {i \in 1..Len(s) : s[i] \notin chars}
    IN  IF keep = {} THEN <<>> ELSE SubSeq(s, SetMin(keep), SetMax(keep))

Whitespace == {" ", "\n", "\t"}

\* str.strip()
Strip(s) == StripChars(s, Whitespace)

LowerChar(c) ==
    CASE c = "A" -> "a"
      [] c = "B" -> "b"
      [] c = "N" -> "n"
      [] c = "Y" -> "y"
      [] OTHER -> c

\* str.lower()
Lower(s) == [i \in 1..Len(s) |-> LowerChar(s[i])]

\* Python's None where a mapping is expected
None == [py |-> "None"]

\* Python's None where a text is expected (no text holds this element)
NoText == <<"None">>

\* str(None), as an f-string shows it
NoneStr == "None"

\* the empty dict {} and the empty str "" where a mapping is expected
EmptyMap == [py |-> "dict"]

EmptyStr == [py |-> "str"]

\* bool(v) of a mapping-like value
Truthy(v) == v \notin {None, EmptyMap, EmptyStr}

\* k in a
Has(a, k) == k \in DOMAIN a

\* dict.get(k, d)
Get(a, k, d) == IF k \in DOMAIN a THEN a[k] ELSE d

----------------------------------------------------------------------------
(* Raw model text.  A text is held by its structure:                       *)
(*   think  which reasoning markers it holds: "thinking" (the pair         *)
(*          <thinking>..</thinking>), "think" (only the end marker         *)
(*          </think>), "none"                                              *)
(*   r      the characters before the reasoning end marker                 *)
(*   open   the marker that opens the action block: "<invoke>",            *)
(*          "</invoke>" or "none" (no action block)                        *)
(*   body   what stands before the closing </invoke>: [json |-> "ok",      *)
(*          obj |-> mapping], [json |-> "bad"] or [json |-> "empty"]       *)
(*   tail   text after the blocks                                          *)

NoBody == [json |-> "empty"]

Json(obj) == [json |-> "ok", obj |-> obj]

BadJson == [json |-> "bad"]

RawText(think, r, open, body) ==
    [think |-> think, r |-> r, open |-> open, body |-> body, tail |-> ""]

\* str.replace("</think>", "</thinking>") on the characters of a string
ReplaceEndMarker(s) ==
    [i \in 1..Len(s) |-> IF s[i] = "</think>" THEN "</thinking>" ELSE s[i]]

\* the same on the strings a mapping holds
ReplaceInAction(a) ==
    [k \in DOMAIN a |-> IF k = "text" THEN ReplaceEndMarker(a[k]) ELSE a[k]]

\* the same on the body of the action block
ReplaceInBody(body) ==
    IF body.json # "ok" THEN body
    ELSE IF Has(body.obj, "arguments")
    THEN Json([body.obj EXCEPT !.arguments = ReplaceInAction(@)])
    ELSE Json(ReplaceInAction(body.obj))

\* the "</think>" shim: str.replace rewrites every occurrence in the text
Canonical(text) ==
    IF text.think = "think"
    THEN [text EXCEPT !.think = "thinking", !.body = ReplaceInBody(@)]
    ELSE text

\* re.search(pattern, text, re.DOTALL)
Matches(text) == text.think = "thinking" /\ text.open # "none"

\* a parse_tagged_text that returns the body it cannot read instead of raising
parse_tagged_text_lenient(text) ==
    LET t == Canonical(text)
        m == Matches(t)
    IN  [raised    |-> FALSE,
         thinking  |-> IF m THEN StripChars(Strip(t.r), {"\""}) ELSE NoText,
         tool_call |-> IF ~m THEN None
                       ELSE IF t.body.json = "ok" THEN t.body.obj
                       ELSE EmptyStr]

\* parse_tagged_text: raised is TRUE when it raises ValueError
parse_tagged_text(text) ==
    LET t == Canonical(text)
        m == Matches(t)
        found == m /\ t.body.json # "empty"
    IN  [raised    |-> found /\ t.body.json = "bad",
         thinking  |-> IF m THEN StripChars(Strip(t.r), {"\""}) ELSE NoText,
         tool_call |-> IF ~m THEN None
                       ELSE IF t.body.json = "ok" THEN t.body.obj
                       ELSE EmptyStr]

CoordKeys == {"coordinate", "start_coordinate", "end_coordinate"}

\* len(coordinates) is neither 2 nor 4
CoordRaises(action) ==
    \E k \in CoordKeys : Has(action, k) /\ Len(action[k]) \notin {2, 4}

\* a normalisation that decides value by value
NormalizeCoord_perValue(c) ==
    LET p == IF Len(c) = 2 THEN c
             ELSE <<(c[1] + c[3]) \div 2, (c[2] + c[4]) \div 2>>
        each(v) == IF v > Num(1) THEN v \div SCALE_FACTOR ELSE v
    IN  <<each(p[1]), each(p[2])>>

\* one coordinate field: bounding box to its centre, then the division
NormalizeCoord(c) ==
    LET p == IF Len(c) = 2 THEN c
             ELSE <<(c[1] + c[3]) \div 2, (c[2] + c[4]) \div 2>>
    IN  IF p[1] > Num(1) \/ p[2] > Num(1)
        THEN <<p[1] \div SCALE_FACTOR, p[2] \div SCALE_FACTOR>>
        ELSE p

NormalizeAction(action) ==
    [k \in DOMAIN action |->
        IF k \in CoordKeys THEN NormalizeCoord(action[k]) ELSE action[k]]

\* the action the tool call holds; None when the code raises on it
Unwrap(tool_call) ==
    IF ~Truthy(tool_call) THEN None
    ELSE IF Has(tool_call, "arguments") THEN tool_call.arguments
    ELSE IF Has(tool_call, "action") THEN tool_call
    ELSE None

\* parse_action_to_structure_output: raised is TRUE when it raises
parse_action_to_structure_output(text) ==
    LET results == parse_tagged_text(text)
        action == IF results.raised THEN None ELSE Unwrap(results.tool_call)
        bad == results.raised \/ action = None
                 \/ (action # EmptyMap /\ CoordRaises(action))
    IN  [raised      |-> bad,
         thinking    |-> results.thinking,
         action_json |-> IF bad THEN None
                         ELSE IF action = EmptyMap THEN EmptyMap
                         ELSE NormalizeAction(action)]

----------------------------------------------------------------------------
(* The duplicate-action guard *)

\* 0.03 of the unit interval
DupDistance == Hundredths(3)

\* a threshold that counts the distance 0.03 itself as a repeat
DistBelow_inclusive(last_coord, curr_coord) ==
    LET dx == Abs(last_coord[1] - curr_coord[1])
        dy == Abs(last_coord[2] - curr_coord[2])
    IN  /\ dx <= DupDistance
        /\ dy <= DupDistance
        /\ dx * dx + dy * dy <= DupDistance * DupDistance

\* ((dx)**2 + (dy)**2)**0.5 < 0.03, on exact values; the squares are taken
\* only of differences below the threshold, which keeps them small
DistBelow(last_coord, curr_coord) ==
    LET dx == Abs(last_coord[1] - curr_coord[1])
        dy == Abs(last_coord[2] - curr_coord[2])
    IN  /\ dx < DupDistance
        /\ dy < DupDistance
        /\ dx * dx + dy * dy < DupDistance * DupDistance

\* a guard that compares launch targets with their case
IsDuplicate_caseSensitive(last_action, curr) ==
    LET current_action_type == Get(curr, "action", "")
    IN  /\ Truthy(last_action)
        /\ current_action_type = Get(last_action, "action", "")
        /\ CASE current_action_type = "click" ->
                  LET last_coord == Get(last_action, "coordinate", <<>>)
                      curr_coord == Get(curr, "coordinate", <<>>)
                  IN  /\ Len(last_coord) = 2
                      /\ Len(curr_coord) = 2
                      /\ DistBelow(last_coord, curr_coord)
             [] current_action_type = "type" ->
                  LET last_text == Get(last_action, "text", <<>>)
                      curr_text == Get(curr, "text", <<>>)
                  IN  last_text = curr_text /\ last_text # <<>>
             [] current_action_type = "launch" ->
                  Get(last_action, "text", <<>>) = Get(curr, "text", <<>>)
             [] OTHER -> FALSE

\* is_duplicate after the comparison with the action of the last step
IsDuplicate(last_action, curr) ==
    LET current_action_type == Get(curr, "action", "")
    IN  /\ Truthy(last_action)
        /\ current_action_type = Get(last_action, "action", "")
        /\ CASE current_action_type = "click" ->
                  LET last_coord == Get(last_action, "coordinate", <<>>)
                      curr_coord == Get(curr, "coordinate", <<>>)
                  IN  /\ Len(last_coord) = 2
                      /\ Len(curr_coord) = 2
                      /\ DistBelow(last_coord, curr_coord)
             [] current_action_type = "type" ->
                  LET last_text == Get(last_action, "text", <<>>)
                      curr_text == Get(curr, "text", <<>>)
                  IN  last_text = curr_text /\ last_text # <<>>
             [] current_action_type = "launch" ->
                  Lower(Get(last_action, "text", <<>>))
                      = Lower(Get(curr, "text", <<>>))
             [] OTHER -> FALSE

\* a guard that looks back over every stored step
GuardVerdict_lookback(ss, curr) ==
    \E i \in 1..Len(ss) : IsDuplicate(ss[i].action, curr)

\* the guard of predict: FALSE on an empty trajectory
GuardVerdict(ss, curr) ==
    Len(ss) > 0 /\ IsDuplicate(ss[Len(ss)].action, curr)

\* the action that replaces a duplicate
WaitAction == [action |-> "wait", duration |-> Num(2)]

\* the note the guard adds to the text it returns
BlockNote == "DUPLICATE ACTION BLOCKED"

\* f"<thinking>{thinking}</thinking> <note>"
BlockedText(th) ==
    [think |-> "thinking", r |-> th, open |-> "none", body |-> NoBody,
     tail |-> BlockNote]

----------------------------------------------------------------------------
(* Rendering the trajectory into the prompt *)

\* the integers k for which the double (k / 999) * 999 is below k
FloatShort == {63, 126, 252, 504, 509, 1003, 1008, 1013, 1018, 1023}

\* int(x * SCALE_FACTOR), as a JSON integer
ToScaledInt(x) ==
    LET unit == Den \div SCALE_FACTOR
        q == x \div unit
    IN  IF x % unit = 0 /\ q \in FloatShort THEN Num(q - 1) ELSE Num(q)

\* int(x), as a JSON integer
ToInt(x) == Num(x \div Den)

\* x < 1.5
Small(x) == x < Hundredths(150)

\* a conversion that takes every value as already scaled
convert_coord_truncates(c) ==
    IF Len(c) = 2 THEN <<ToInt(c[1]), ToInt(c[2])>>
    ELSE IF Len(c) = 4
    THEN <<ToInt(c[1]), ToInt(c[2]), ToInt(c[3]), ToInt(c[4])>>
    ELSE c

convert_coord(c) ==
    IF Len(c) = 2
    THEN IF Small(c[1]) /\ Small(c[2])
         THEN <<ToScaledInt(c[1]), ToScaledInt(c[2])>>
         ELSE <<ToInt(c[1]), ToInt(c[2])>>
    ELSE IF Len(c) = 4
    THEN IF Small(c[1]) /\ Small(c[2])
         THEN <<ToScaledInt(c[1]), ToScaledInt(c[2]),
                ToScaledInt(c[3]), ToScaledInt(c[4])>>
         ELSE <<ToInt(c[1]), ToInt(c[2]), ToInt(c[3]), ToInt(c[4])>>
    ELSE c

\* s[:2]
FirstTwo(s) == SubSeq(s, 1, IF Len(s) < 2 THEN Len(s) ELSE 2)

Placeholder == <<"(proceeding with action)">>

\* the text of the assistant turn of a step, held by its parts
mem2response(step) ==
    LET a == step.structured_action.action_json
        arguments ==
            IF a = EmptyMap THEN EmptyMap
            ELSE [k \in DOMAIN a |->
                    IF k = "coordinate" THEN convert_coord(a[k])
                    ELSE IF k \in CoordKeys THEN FirstTwo(convert_coord(a[k]))
                    ELSE a[k]]
    IN  [thinking  |-> IF step.thought # <<>> THEN step.thought
                       ELSE Placeholder,
         name      |-> "desktop_use",
         arguments |-> arguments]

mem2execution_result(step) == step.conclusion

SystemMsg == [role |-> "system", text |-> <<"system_prompt">>]

UserText(t) == [role |-> "user", text |-> t]

AssistantMsg(step) == [role |-> "assistant", response |-> mem2response(step)]

FeedbackMsg(r) == [role |-> "user", execution_result |-> r]

ImageMsg(img) == [role |-> "user", image_url |-> img]

\* the turns of the steps: the assistant turn, then the feedback if any
RECURSIVE HistoryMsgs(_)
HistoryMsgs(ss) ==
    IF ss = <<>> THEN <<>>
    ELSE LET step == Head(ss)
             execution_result == mem2execution_result(step)
         IN  <<AssistantMsg(step)>>
             \o (IF execution_result # <<>>
                 THEN <<FeedbackMsg(execution_result)>> ELSE <<>>)
             \o HistoryMsgs(Tail(ss))

_build_messages(instr, ss, image) ==
    <<SystemMsg, UserText(instr)>> \o HistoryMsgs(ss) \o <<ImageMsg(image)>>

\* mask_image_urls_for_logging: a masked deep copy
mask_image_urls_for_logging(msgs) ==
    [i \in 1..Len(msgs) |->
        IF Has(msgs[i], "image_url")
        THEN [msgs[i] EXCEPT !.image_url = <<"[IMAGE_DATA]">>]
        ELSE msgs[i]]

----------------------------------------------------------------------------
(* What the model endpoint may answer, and what the caller may pass *)

Ok == <<"o", "k">>

Click(x, y) == [action |-> "click", coordinate |-> <<x, y>>]

Direct(r, a) == RawText("thinking", r, "<invoke>", Json(a))

\* the alternate end marker, the closing marker as opener, a wrapped body
Variant(r, a) ==
    RawText("think", r, "</invoke>",
            Json([name |-> "desktop_use", arguments |-> a]))

\* responses that parse
GoodResponses ==
    { Direct(Ok, Click(Hundredths(50), Hundredths(50))),
      Direct(<<>>, Click(Hundredths(51), Hundredths(51))),
      Direct(Ok, Click(Hundredths(53), Hundredths(50))),
      Direct(Ok, Click(Hundredths(60), Hundredths(60))),
      Variant(<<" ", "o", "k">>, Click(Num(505), Num(505))),
      Direct(Ok, [action |-> "click"]),
      Direct(Ok, [action |-> "type", text |-> <<"a">>]),
      Direct(Ok, [action |-> "type", text |-> <<>>]),
      Direct(Ok, [action |-> "launch", text |-> <<"N">>]),
      Variant(Ok, [action |-> "launch", text |-> <<"n">>]),
      Direct(Ok, [action |-> "wait", duration |-> Num(1)]),
      Direct(Ok, [action |-> "hotkey", text |-> <<"a">>]),
      Variant(Ok, EmptyMap) }

\* responses on which parse_action_to_structure_output raises
BadResponses ==
    { RawText("none", <<>>, "<invoke>", Json([action |-> "wait"])),
      RawText("thinking", Ok, "none", NoBody),
      RawText("thinking", Ok, "<invoke>", BadJson),
      RawText("thinking", Ok, "<invoke>", NoBody),
      Direct(Ok, [text |-> <<"a">>]),
      Direct(Ok, [action |-> "click",
                  coordinate |-> <<Num(1), Num(2), Num(3)>>]) }

Responses == GoodResponses \cup BadResponses

Instructions == {<<>>, <<"a">>, <<"b">>}

\* the screen as it is once n steps were taken
Shot(n) == <<"screenshot", n>>

\* the executor's result string for the action of the step with index i
Res(i) == <<"result", i>>

\* the action types DesktopController.execute_action dispatches to a handler
DesktopActions ==
    {"click", "double_click", "drag", "scroll", "type", "launch", "wait",
     "terminate", "answer"}

\* DesktopController.execute_action on the action of the step with index i:
\* what the handler returns (its result, or "Error executing" when it
\* raises), or the report of an action type it does not know
execute_action(action, i) ==
    LET action_type == Get(action, "action", NoneStr)
    IN  IF action_type \in DesktopActions THEN Res(i)
        ELSE <<"Unknown or blocked action", action_type>>

\* the action types MAIDesktopOneShotAgent._execute_action dispatches
OneShotActions == {"click", "type", "launch", "scroll", "wait", "answer"}

\* MAIDesktopOneShotAgent._execute_action
_execute_action(action, i) ==
    LET action_type == Get(action, "action", NoneStr)
    IN  IF action_type \in OneShotActions THEN Res(i)
        ELSE <<"Unknown action", action_type>>

\* the execution_result a caller may pass: none, or that of the last action
Feedbacks(ss) ==
    {<<>>} \cup (IF ss = <<>> THEN {}
                 ELSE {execute_action(ss[Len(ss)].action, Len(ss) - 1)})

----------------------------------------------------------------------------
(* The predict cycle *)

max_retries == 3

ErrorText ==
    [think |-> "none", r |-> <<>>, open |-> "none", body |-> NoBody,
     tail |-> "llm client error"]

\* ("llm client error", {"action": None})
Sentinel == [prediction |-> ErrorText, action |-> [action |-> NoneStr]]

NoRet == [prediction |-> None, action |-> None]

NoObs == [screenshot |-> <<>>, execution_result |-> <<>>]

\* the trajectory memory of a new or reset agent: no step, no goal
NewTrajMemory == [steps |-> <<>>, task_goal |-> <<>>]

\* the HTTP server with no request in hand: nothing answered, no model call
\* made, no operation performed on the desktop
NoRequest == [id |-> "none", method |-> "none", params |-> EmptyMap]

NoResponse ==
    [kind |-> "none", id |-> "none", code |-> 0, thinking |-> NoText,
     predicted_action |-> None, executed |-> "absent",
     execution_result |-> NoText]

NoMcp ==
    [pc |-> "off", request |-> NoRequest, response |-> NoResponse,
     model_calls |-> 0, ops |-> <<>>]

\* what run returns, before anything is filled in
NoResult ==
    [thinking |-> NoText, action |-> None, raw_output |-> None,
     screenshot_path |-> "absent", executed |-> "absent", result |-> NoText]

\* the one-shot agent outside run
NoRun ==
    [pc |-> "off", save_screenshots |-> FALSE, execute |-> FALSE,
     confirm |-> FALSE, call_count |-> 0, result |-> NoResult,
     raised |-> "none", asked |-> 0, user_input |-> NoText,
     executions |-> 0, ops |-> <<>>]

\* the example's task loop before an instruction is typed
NoMain == [pc |-> "off", step_count |-> 0, last_execution_result |-> <<>>]

\* the agent after construction
AgentInit ==
    /\ steps = NewTrajMemory.steps
    /\ task_goal = NewTrajMemory.task_goal
    /\ pc = "idle"
    /\ instruction = <<>>
    /\ obs = NoObs
    /\ messages = <<>>
    /\ attempt = 0
    /\ thinking = NoText
    /\ prediction = None
    /\ action_json = None
    /\ ret = NoRet
    /\ pre_steps = <<>>
    /\ pre_goal = <<>>
    /\ sent = <<>>
    /\ cand = None
    /\ blocked = FALSE
    /\ first_instr = NoText
    /\ first_set = NoText
    /\ exhausted = FALSE

\* the agent, with the other programs not started
Init ==
    /\ AgentInit
    /\ main = NoMain
    /\ mcp = NoMcp
    /\ run = NoRun

\* a goal that every call overwrites
SetGoal_overwrites(goal, instr) == instr

\* "if not self.traj_memory.task_goal: self.traj_memory.task_goal = instruction"
SetGoal(goal, instr) == IF goal = <<>> THEN instr ELSE goal

\* predict up to the retry loop
BeginCycle(instr, o) ==
    /\ pc = "idle"
    /\ task_goal' = SetGoal(task_goal, instr)
    /\ instruction' = instr
    /\ obs' = o
    /\ messages' = _build_messages(instr, steps, o.screenshot)
    /\ attempt' = 0
    /\ prediction' = None
    /\ action_json' = None
    /\ thinking' = NoText
    /\ pc' = "loop"
    /\ pre_steps' = steps
    /\ pre_goal' = task_goal
    /\ sent' = <<>>
    /\ cand' = None
    /\ blocked' = FALSE
    /\ first_instr' = IF first_instr = NoText THEN instr ELSE first_instr
    /\ first_set' = IF first_set = NoText /\ instr # <<>> THEN instr
                    ELSE first_set
    /\ ret' = NoRet
    /\ exhausted' = FALSE
    /\ UNCHANGED <<steps, mcp, run>>

\* a predict call of the caller that drives the agent directly
PredictBegin(instr, o) ==
    /\ Len(steps) < MaxSteps
    /\ BeginCycle(instr, o)
    /\ UNCHANGED main

\* the call given the list that was masked for the log
SentMessages_masked(msgs) == mask_image_urls_for_logging(msgs)

\* the messages argument of chat.completions.create
SentMessages(msgs) == msgs

\* the except clause of the loop
AttemptFails ==
    /\ sent' = Append(sent, SentMessages(messages))
    /\ prediction' = None
    /\ action_json' = None
    /\ attempt' = attempt + 1
    /\ pc' = IF attempt + 1 < max_retries THEN "loop" ELSE "after"
    /\ exhausted' = ~(attempt + 1 < max_retries)
    /\ UNCHANGED <<steps, task_goal, instruction, obs, messages, thinking,
                   ret, pre_steps, pre_goal, cand, blocked, first_instr,
                   first_set, main, mcp, run>>

\* one iteration: the model call raises
AttemptCallFails ==
    /\ pc = "loop"
    /\ AttemptFails

\* one iteration: the call returns, parsing raises
AttemptParseFails(resp) ==
    /\ pc = "loop"
    /\ parse_action_to_structure_output(resp).raised
    /\ AttemptFails

\* a loop that replaces an action of a type no executor knows by a wait
AttemptAccepted_substitutes(resp) ==
    LET parsed == parse_action_to_structure_output(resp)
        known == Get(parsed.action_json, "action", NoneStr)
                   \in DesktopActions \cup OneShotActions
    IN  /\ pc = "loop"
        /\ ~parsed.raised
        /\ ~GuardVerdict(steps, parsed.action_json)
        /\ sent' = Append(sent, SentMessages(messages))
        /\ prediction' = resp
        /\ thinking' = parsed.thinking
        /\ action_json' = IF known THEN parsed.action_json ELSE WaitAction
        /\ cand' = parsed.action_json
        /\ blocked' = FALSE
        /\ pc' = "after"
        /\ UNCHANGED <<steps, task_goal, instruction, obs, messages, attempt,
                       ret, pre_steps, pre_goal, first_instr, first_set,
                       exhausted, main, mcp, run>>

\* one iteration: the call returns, the response parses, the guard passes it
AttemptAccepted(resp) ==
    LET parsed == parse_action_to_structure_output(resp)
    IN  /\ pc = "loop"
        /\ ~parsed.raised
        /\ ~GuardVerdict(steps, parsed.action_json)
        /\ sent' = Append(sent, SentMessages(messages))
        /\ prediction' = resp
        /\ thinking' = parsed.thinking
        /\ action_json' = parsed.action_json
        /\ cand' = parsed.action_json
        /\ blocked' = FALSE
        /\ pc' = "after"
        /\ UNCHANGED <<steps, task_goal, instruction, obs, messages, attempt,
                       ret, pre_steps, pre_goal, first_instr, first_set,
                       exhausted, main, mcp, run>>

\* a guard that reports the repeat and lets the candidate through
AttemptDuplicate_keepsCandidate(resp) ==
    LET parsed == parse_action_to_structure_output(resp)
    IN  /\ pc = "loop"
        /\ ~parsed.raised
        /\ GuardVerdict(steps, parsed.action_json)
        /\ sent' = Append(sent, SentMessages(messages))
        /\ thinking' = parsed.thinking
        /\ action_json' = parsed.action_json
        /\ prediction' = BlockedText(parsed.thinking)
        /\ cand' = parsed.action_json
        /\ blocked' = TRUE
        /\ pc' = "after"
        /\ UNCHANGED <<steps, task_goal, instruction, obs, messages, attempt,
                       ret, pre_steps, pre_goal, first_instr, first_set,
                       exhausted, main, mcp, run>>

\* one iteration: the call returns, the response parses, the guard blocks it
AttemptDuplicate(resp) ==
    LET parsed == parse_action_to_structure_output(resp)
    IN  /\ pc = "loop"
        /\ ~parsed.raised
        /\ GuardVerdict(steps, parsed.action_json)
        /\ sent' = Append(sent, SentMessages(messages))
        /\ thinking' = parsed.thinking
        /\ action_json' = WaitAction
        /\ prediction' = BlockedText(parsed.thinking)
        /\ cand' = parsed.action_json
        /\ blocked' = TRUE
        /\ pc' = "after"
        /\ UNCHANGED <<steps, task_goal, instruction, obs, messages, attempt,
                       ret, pre_steps, pre_goal, first_instr, first_set,
                       exhausted, main, mcp, run>>

\* the locals of predict after it returned
Return ==
    /\ pc' = "idle"
    /\ instruction' = <<>>
    /\ obs' = NoObs
    /\ messages' = <<>>
    /\ thinking' = NoText
    /\ prediction' = None
    /\ action_json' = None
    /\ attempt' = 0
    /\ sent' = <<>>

\* TrajStep(...) as predict fills it
TrajStep(o, pred, act, th, index) ==
    [screenshot        |-> o.screenshot,
     prediction        |-> pred,
     action            |-> act,
     conclusion        |-> o.execution_result,
     thought           |-> th,
     step_index        |-> index,
     structured_action |-> [action_json |-> act]]

\* a failed cycle that stores a step all the same
PredictFail_persists ==
    /\ pc = "after"
    /\ (prediction = None \/ action_json = None)
    /\ steps' = Append(steps,
                  TrajStep(obs, prediction, action_json, thinking, Len(steps)))
    /\ ret' = Sentinel
    /\ Return
    /\ UNCHANGED <<task_goal, pre_steps, pre_goal, cand, blocked, first_instr,
                   first_set, exhausted, main, mcp, run>>

\* a failed cycle that clears the trajectory memory
PredictFail_resets ==
    /\ pc = "after"
    /\ (prediction = None \/ action_json = None)
    /\ steps' = <<>>
    /\ task_goal' = <<>>
    /\ ret' = Sentinel
    /\ Return
    /\ UNCHANGED <<pre_steps, pre_goal, cand, blocked, first_instr, first_set,
                   exhausted, main, mcp, run>>

\* "Return error if all retries failed"
PredictFail ==
    /\ pc = "after"
    /\ (prediction = None \/ action_json = None)
    /\ ret' = Sentinel
    /\ Return
    /\ UNCHANGED <<steps, task_goal, pre_steps, pre_goal, cand, blocked,
                   first_instr, first_set, exhausted, main, mcp, run>>

\* a cycle that stores its step twice
PredictPersist_twice ==
    LET step == TrajStep(obs, prediction, action_json, thinking, Len(steps))
    IN  /\ pc = "after"
        /\ ~(prediction = None \/ action_json = None)
        /\ steps' = Append(Append(steps, step), step)
        /\ ret' = [prediction |-> prediction, action |-> action_json]
        /\ Return
        /\ UNCHANGED <<task_goal, pre_steps, pre_goal, cand, blocked,
                       first_instr, first_set, exhausted, main, mcp, run>>

\* "Create and store trajectory step"
PredictPersist ==
    /\ pc = "after"
    /\ ~(prediction = None \/ action_json = None)
    /\ steps' = Append(steps,
                  TrajStep(obs, prediction, action_json, thinking, Len(steps)))
    /\ ret' = [prediction |-> prediction, action |-> action_json]
    /\ Return
    /\ UNCHANGED <<task_goal, pre_steps, pre_goal, cand, blocked, first_instr,
                   first_set, exhausted, main, mcp, run>>

\* reset: a fresh trajectory memory
Reset ==
    /\ pc = "idle"
    /\ steps' = NewTrajMemory.steps
    /\ task_goal' = NewTrajMemory.task_goal
    /\ ret' = NoRet
    /\ attempt' = 0
    /\ pre_steps' = <<>>
    /\ pre_goal' = <<>>
    /\ cand' = None
    /\ blocked' = FALSE
    /\ first_instr' = NoText
    /\ first_set' = NoText
    /\ exhausted' = FALSE
    /\ UNCHANGED <<pc, instruction, obs, messages, thinking, prediction,
                   action_json, sent, main, mcp, run>>

Next ==
    \/ \E instr \in Instructions, r \in Feedbacks(steps) :
          PredictBegin(instr, [screenshot |-> Shot(Len(steps)),
                               execution_result |-> r])
    \/ AttemptCallFails
    \/ \E resp \in Responses : AttemptParseFails(resp)
    \/ \E resp \in Responses : AttemptAccepted(resp)
    \/ \E resp \in Responses : AttemptDuplicate(resp)
    \/ PredictFail
    \/ PredictPersist
    \/ Reset

Spec == Init /\ [][Next]_vars

----------------------------------------------------------------------------
(* A long task: one instruction, a model that always answers with an       *)
(* action, and a caller that goes on past history_n steps.                 *)

\* the history_n argument of the constructor, kept as self.history_n
history_n == 3

\* what the model answers in the long task
HistoryResponses ==
    { Direct(Ok, Click(Hundredths(50), Hundredths(50))),
      Direct(Ok, [action |-> "type", text |-> <<"a">>]) }

\* a predict call of the long task
HistoryBegin ==
    /\ Len(steps) < MaxHistory
    /\ \E r \in Feedbacks(steps) :
          BeginCycle(<<"a">>, [screenshot |-> Shot(Len(steps)),
                               execution_result |-> r])
    /\ UNCHANGED main

HistoryNext ==
    \/ HistoryBegin
    \/ \E resp \in HistoryResponses : AttemptAccepted(resp)
    \/ \E resp \in HistoryResponses : AttemptDuplicate(resp)
    \/ PredictPersist

HistorySpec == Init /\ [][HistoryNext]_vars

----------------------------------------------------------------------------
(* The response parsers of the one-shot agent and of the HTTP server *)

\* one coordinate field of the one-shot _normalize_action_coordinates
OneShot_normalize_coord(coord) ==
    LET should_normalize(val) == val > Hundredths(150)
        normalize_value(val) ==
            IF should_normalize(val) THEN val \div SCALE_FACTOR ELSE val
    IN  IF /\ Len(coord) >= 2
           /\ (should_normalize(coord[1]) \/ should_normalize(coord[2]))
        THEN <<normalize_value(coord[1]), normalize_value(coord[2])>>
        ELSE coord

\* MAIDesktopOneShotAgent._normalize_action_coordinates
OneShot_normalize_action_coordinates(action) ==
    [k \in DOMAIN action |->
        IF k \in CoordKeys THEN OneShot_normalize_coord(action[k])
        ELSE action[k]]

\* MAIDesktopOneShotAgent._parse_response; both patterns need the opening
\* markers <thinking> and <invoke>
OneShot_parse_response(text) ==
    LET thinking_match == text.think = "thinking"
        invoke_match == text.open = "<invoke>" /\ text.body.json # "empty"
        parsed == text.body.obj
        action == IF Has(parsed, "arguments") THEN parsed.arguments
                  ELSE parsed
    IN  [thinking |-> IF thinking_match THEN Strip(text.r) ELSE NoText,
         action   |-> IF invoke_match /\ text.body.json = "ok"
                      THEN OneShot_normalize_action_coordinates(action)
                      ELSE None]

\* an HTTP normaliser that leaves every list that is not a pair alone
HTTP_normalize_coord_pairsOnly(coord) ==
    IF Len(coord) = 2 THEN OneShot_normalize_coord(coord) ELSE coord

\* one coordinate field of the HTTP server's _normalize_action_coordinates
HTTP_normalize_coord(coord) ==
    LET should_normalize(val) == val > Hundredths(150)
        normalize_value(val) ==
            IF should_normalize(val) THEN val \div SCALE_FACTOR ELSE val
    IN  IF /\ Len(coord) >= 2
           /\ (should_normalize(coord[1]) \/ should_normalize(coord[2]))
        THEN <<normalize_value(coord[1]), normalize_value(coord[2])>>
        ELSE coord

\* MAIDesktopHTTPMCP._normalize_action_coordinates
HTTP_normalize_action_coordinates(action) ==
    [k \in DOMAIN action |->
        IF k \in CoordKeys THEN HTTP_normalize_coord(action[k])
        ELSE action[k]]

\* MAIDesktopHTTPMCP._parse_response
HTTP_parse_response(text) ==
    LET thinking_match == text.think = "thinking"
        invoke_match == text.open = "<invoke>" /\ text.body.json # "empty"
        parsed == text.body.obj
        action == IF Has(parsed, "arguments") THEN parsed.arguments
                  ELSE parsed
    IN  [thinking |-> IF thinking_match THEN Strip(text.r) ELSE NoText,
         action   |-> IF invoke_match /\ text.body.json = "ok"
                      THEN HTTP_normalize_action_coordinates(action)
                      ELSE None]

----------------------------------------------------------------------------
(* The parsers and the renderer as functions: a response text is parsed by *)
(* each of the three parsers; what the navigation agent's parser accepted  *)
(* is stored as a step, rendered into the next prompt, and the rendered    *)
(* assistant turn is parsed again.                                         *)

\* the text mem2response returns for its parts
ResponseText(resp) ==
    RawText("thinking", <<"\n">> \o resp.thinking \o <<"\n">>, "<invoke>",
            Json([name |-> resp.name, arguments |-> resp.arguments]))

\* scaled integer pairs: every value of one axis with a few of the other
ScaledPairs ==
    LET partners == {0, 1, 500}
    IN  {<<Num(x), Num(p)>> : x \in 0..SCALE_FACTOR, p \in partners}
          \cup {<<Num(p), Num(x)>> : x \in 0..SCALE_FACTOR, p \in partners}

\* pairs that hold unit values, values between 1 and 2, and mixed ones
OtherPairs ==
    LET values == {Hundredths(50), Hundredths(120), Hundredths(150),
                   Hundredths(160), Num(500)}
    IN  {<<u, v>> : u \in values, v \in values}

\* bounding boxes
Boxes ==
    LET values == {0, 1, 2, 3}
    IN  {<<Num(a), Num(b), Num(c), Num(d)>> :
            a \in values, b \in values, c \in values, d \in values}
          \cup {<<Num(10), Num(20), Num(30), Num(40)>>,
                <<Num(500), Num(500), Num(504), Num(504)>>}

\* lists that are neither a pair nor a box
OddLists ==
    {<<>>, <<Num(500)>>, <<Num(500), Num(500), Num(7)>>,
     <<Num(1), Num(1), Num(7)>>,
     <<Num(1), Num(2), Num(3), Num(4), Num(5)>>}

Drag(s, e) ==
    [action |-> "drag", start_coordinate |-> s, end_coordinate |-> e]

DragEnds ==
    {<<Num(500), Num(500)>>, <<Num(1), Num(1)>>, <<Num(63), Num(504)>>,
     <<Num(10), Num(20), Num(30), Num(40)>>,
     <<Num(500), Num(500), Num(7)>>}

\* a text without any block
NoBlock == RawText("none", Ok, "none", NoBody)

\* the tolerated variants one by one, and a typed text that holds the
\* alternate end marker
TolerantTexts ==
    LET click == Click(Num(500), Num(500))
        typed == [action |-> "type", text |-> <<"a", "</think>">>]
    IN  {RawText("think", Ok, "<invoke>", Json(click)),
         RawText("thinking", Ok, "</invoke>", Json(click)),
         RawText("thinking", Ok, "<invoke>", Json([arguments |-> click])),
         RawText("think", Ok, "<invoke>", Json(typed)),
         RawText("thinking", Ok, "</invoke>", Json(typed)),
         RawText("thinking", Ok, "<invoke>", Json([arguments |-> typed]))}

CodecTexts ==
    {Direct(Ok, [action |-> "click", coordinate |-> c]) :
        c \in ScaledPairs \cup OtherPairs \cup Boxes \cup OddLists}
      \cup {Direct(Ok, Drag(s, e)) : s \in DragEnds, e \in DragEnds}
      \cup {Direct(<<" ", "o", "k", "\n">>, Click(Num(500), Num(500))),
            NoBlock}
      \cup TolerantTexts
      \cup Responses

CodecInit ==
    /\ steps = <<>>
    /\ task_goal = <<>>
    /\ pc = "text"
    /\ instruction = <<>>
    /\ obs = NoObs
    /\ messages = <<>>
    /\ attempt = 0
    /\ thinking = NoText
    /\ prediction \in CodecTexts
    /\ action_json = None
    /\ ret = NoRet
    /\ pre_steps = <<>>
    /\ pre_goal = <<>>
    /\ sent = <<>>
    /\ cand = None
    /\ blocked = FALSE
    /\ first_instr = NoText
    /\ first_set = NoText
    /\ exhausted = FALSE
    /\ main = NoMain
    /\ mcp = NoMcp
    /\ run = NoRun

\* parse_action_to_structure_output(prediction), as predict calls it
CodecParse ==
    LET parsed == parse_action_to_structure_output(prediction)
    IN  /\ pc = "text"
        /\ pc' = IF parsed.raised THEN "raised" ELSE "parsed"
        /\ thinking' = IF parsed.raised THEN thinking ELSE parsed.thinking
        /\ action_json' = parsed.action_json
        /\ UNCHANGED <<steps, task_goal, instruction, obs, messages, attempt,
                       prediction, ret, pre_steps, pre_goal, sent, cand,
                       blocked, first_instr, first_set, exhausted,
                       main, mcp, run>>

\* the one-shot agent's _parse_response(prediction)
CodecOneShot ==
    LET result == OneShot_parse_response(prediction)
    IN  /\ pc = "text"
        /\ pc' = "oneshot"
        /\ thinking' = result.thinking
        /\ action_json' = result.action
        /\ UNCHANGED <<steps, task_goal, instruction, obs, messages, attempt,
                       prediction, ret, pre_steps, pre_goal, sent, cand,
                       blocked, first_instr, first_set, exhausted,
                       main, mcp, run>>

\* the HTTP server's _parse_response(prediction)
CodecHTTP ==
    LET result == HTTP_parse_response(prediction)
    IN  /\ pc = "text"
        /\ pc' = "http"
        /\ thinking' = result.thinking
        /\ action_json' = result.action
        /\ UNCHANGED <<steps, task_goal, instruction, obs, messages, attempt,
                       prediction, ret, pre_steps, pre_goal, sent, cand,
                       blocked, first_instr, first_set, exhausted,
                       main, mcp, run>>

\* the parsed action is stored as a step and the next prompt is built
CodecRender ==
    LET step == TrajStep(obs, prediction, action_json, thinking, 0)
    IN  /\ pc = "parsed"
        /\ pc' = "rendered"
        /\ steps' = <<step>>
        /\ messages' = _build_messages(instruction, <<step>>, obs.screenshot)
        /\ UNCHANGED <<task_goal, instruction, obs, attempt, thinking,
                       prediction, action_json, ret, pre_steps, pre_goal,
                       sent, cand, blocked, first_instr, first_set,
                       exhausted, main, mcp, run>>

\* the assistant turn of the prompt is parsed as a response
CodecReparse ==
    LET text == ResponseText(messages[3].response)
        parsed == parse_action_to_structure_output(text)
    IN  /\ pc = "rendered"
        /\ pc' = IF parsed.raised THEN "reraised" ELSE "reparsed"
        /\ prediction' = text
        /\ thinking' = parsed.thinking
        /\ action_json' = parsed.action_json
        /\ UNCHANGED <<steps, task_goal, instruction, obs, messages, attempt,
                       ret, pre_steps, pre_goal, sent, cand, blocked,
                       first_instr, first_set, exhausted, main, mcp, run>>

CodecNext ==
    \/ CodecParse
    \/ CodecOneShot
    \/ CodecHTTP
    \/ CodecRender
    \/ CodecReparse

CodecSpec == CodecInit /\ [][CodecNext]_vars

----------------------------------------------------------------------------
(* The HTTP server: execute_action_on_desktop and the /mcp endpoint.  One  *)
(* request is in hand; the handler answers it with a JSON-RPC response or  *)
(* ends in an exception nothing catches.                                   *)

\* the names the module binds at top level by import
ModuleImports ==
    {"base64", "json", "uuid", "datetime", "BytesIO", "Path", "FastAPI",
     "Request", "JSONResponse", "BaseModel", "OpenAI", "Image", "uvicorn",
     "mss"}

\* a global name the module never binds
NameError(name) == name \notin ModuleImports

\* max(a, b)
Max(a, b) == IF a >= b THEN a ELSE b

\* "page_presses = max(1, (amount + 2) // 3)"
page_presses(amount) == Max(1, (amount + 2) \div 3)

\* n presses of a key
Presses(key, n) == [i \in 1..n |-> key]

\* the desktop as the automation library finds it: usable, not importable,
\* or raising on every call
Desktops == {"ok", "no_module", "fails"}

\* execute_action_on_desktop: what it returns or that it raises, and the
\* operations it performed
execute_action_on_desktop(action, desktop, clipboard_ok) ==
    LET action_type == Get(action, "action", NoneStr)
        done(result, ops) == [raised |-> FALSE, result |-> result, ops |-> ops]
        error == done(<<"Error executing", action_type>>, <<>>)
        direction == Get(action, "direction", "up")
        amount == Get(action, "amount", 3)
        key == IF direction = "up" THEN "pageup" ELSE "pagedown"
    IN  IF desktop = "no_module"
        THEN [raised |-> TRUE, result |-> <<"ImportError">>, ops |-> <<>>]
        ELSE IF action_type = "click"
        THEN IF ~Has(action, "coordinate") \/ desktop = "fails" THEN error
             ELSE done(<<"Clicked", Get(action, "button", "left")>>,
                       <<"moveTo", "click">>)
        ELSE IF action_type = "type"
        THEN IF ~Has(action, "text") \/ desktop = "fails" THEN error
             ELSE done(<<"Typed">>,
                       IF clipboard_ok THEN <<"hotkey">> ELSE <<"write">>)
        ELSE IF action_type = "wait"
        THEN done(<<"Waited", Get(action, "duration", 1)>>, <<"sleep">>)
        ELSE IF action_type = "scroll"
        THEN IF ~Has(action, "coordinate") \/ desktop = "fails" THEN error
             ELSE done(<<"Scrolled", direction, amount, page_presses(amount),
                         key>>,
                       <<"moveTo">> \o Presses(key, page_presses(amount)))
        ELSE done(<<"Unsupported action", action_type>>, <<>>)

\* the files the server sees: a screenshot and a directory
Exists(path) == path \in {"shot.png", "dir"}

\* a check that only refuses the empty path
ScreenshotMissing_emptyOnly(path) == path = ""

\* "if not screenshot_path or not Path(screenshot_path).exists()"
ScreenshotMissing(path) == path = "" \/ ~Exists(path)

\* a tool that executes a predicted scroll as well
ExecutedTypes_withScroll == {"click", "type", "wait", "scroll"}

\* the action types the predict_action tool executes
ExecutedTypes == {"click", "type", "wait"}

\* image_to_base64 opens the path as a file
Readable(path) == path = "shot.png"

ScreenshotPaths == {"", "gone.png", "shot.png", "dir"}

McpIds == {"1", "2"}

\* the arguments of a tools/call
ToolArguments ==
    {EmptyMap}
      \cup {[screenshot_path |-> p] : p \in ScreenshotPaths}
      \cup {[screenshot_path |-> p, direction |-> d, amount |-> a] :
              p \in ScreenshotPaths, d \in {"up", "down"},
              a \in 0..MaxAmount}

\* the JSON-RPC requests posted to /mcp
McpRequests ==
    {[id |-> i, method |-> m, params |-> EmptyMap] :
        i \in McpIds, m \in {"tools/list", "initialize", "ping"}}
      \cup {[id |-> i, method |-> "tools/call",
             params |-> [name |-> n, arguments |-> a]] :
              i \in McpIds,
              n \in {"screenshot", "scroll_action", "predict_action",
                     "other"},
              a \in ToolArguments}

\* the actions execute_action_on_desktop is called with directly
DesktopCalls ==
    {[action |-> "scroll", coordinate |-> <<Hundredths(50), Hundredths(50)>>,
      direction |-> d, amount |-> a] : d \in {"up", "down"},
                                       a \in 0..MaxAmount}
      \cup {[action |-> "scroll",
             coordinate |-> <<Hundredths(50), Hundredths(50)>>],
            [action |-> "scroll"],
            Click(Hundredths(50), Hundredths(50)),
            [action |-> "type", text |-> <<"a">>],
            [action |-> "wait"],
            [action |-> "launch", text |-> <<"N">>]}

\* the actions the model may predict for the server
HttpActions ==
    {Click(Num(500), Num(500)),
     [action |-> "click"],
     [action |-> "type", text |-> <<"a">>],
     [action |-> "wait"],
     [action |-> "scroll", coordinate |-> <<Num(500), Num(500)>>,
      direction |-> "down"],
     [action |-> "launch", text |-> <<"N">>],
     Drag(<<Num(1), Num(1)>>, <<Num(500), Num(500)>>),
     [action |-> "double_click", coordinate |-> <<Num(500), Num(500)>>],
     [action |-> "answer", text |-> <<"a">>],
     [action |-> "terminate", status |-> "success"],
     [action |-> "hotkey", text |-> <<"a">>],
     [text |-> <<"a">>]}

\* the texts the model may answer the server with
HttpTexts ==
    {Direct(Ok, a) : a \in HttpActions}
      \cup {NoBlock, RawText("thinking", Ok, "<invoke>", BadJson),
            RawText("none", <<>>, "<invoke>", Json([action |-> "wait"])),
            Direct(Ok, EmptyMap)}

\* a JSONResponse with "result"
ResultResponse(id, th, predicted, executed, result) ==
    [kind |-> "result", id |-> id, code |-> 0, thinking |-> th,
     predicted_action |-> predicted, executed |-> executed,
     execution_result |-> result]

\* a JSONResponse with "error"
ErrorResponse(id, code) ==
    [kind |-> "error", id |-> id, code |-> code, thinking |-> NoText,
     predicted_action |-> None, executed |-> "absent",
     execution_result |-> NoText]

\* an exception that leaves mcp_endpoint: no JSON-RPC response is built
Fault(exception) ==
    [kind |-> "fault", id |-> "none", code |-> 0, thinking |-> NoText,
     predicted_action |-> None, executed |-> "absent",
     execution_result |-> <<exception>>]

\* the server holds one request; the agent of the other programs is idle
McpInit ==
    /\ AgentInit
    /\ main = NoMain
    /\ run = NoRun
    /\ \E request \in McpRequests \cup
                        {[id |-> "none",
                          method |-> "execute_action_on_desktop",
                          params |-> a] : a \in DesktopCalls} :
          mcp = [NoMcp EXCEPT !.pc = "request", !.request = request]

\* the request has been answered
Answer(response, calls, ops) ==
    /\ mcp' = [mcp EXCEPT !.pc = "done", !.response = response,
                          !.model_calls = calls, !.ops = ops]
    /\ UNCHANGED <<steps, task_goal, pc, instruction, obs, messages, attempt,
                   thinking, prediction, action_json, ret, pre_steps,
                   pre_goal, sent, cand, blocked, first_instr, first_set,
                   exhausted, main, run>>

\* "req_id = body.get("id", ...)", and the parts of a tools/call
req_id == mcp.request.id

tool_name == Get(mcp.request.params, "name", NoneStr)

arguments == Get(mcp.request.params, "arguments", EmptyMap)

screenshot_path == Get(arguments, "screenshot_path", "")

\* MAIDesktopHTTPMCP.predict_action on the text the model answered
server_predict_action(text) == HTTP_parse_response(text)

\* method "tools/list"
McpToolsList ==
    /\ mcp.pc = "request"
    /\ mcp.request.method = "tools/list"
    /\ Answer(ResultResponse(req_id, NoText, None, "absent", <<"tools">>),
              0, <<>>)

\* method "initialize"
McpInitialize ==
    /\ mcp.pc = "request"
    /\ mcp.request.method = "initialize"
    /\ Answer(ResultResponse(req_id, NoText, None, "absent",
                             <<"protocolVersion">>), 0, <<>>)

\* any other method
McpMethodNotFound ==
    /\ mcp.pc = "request"
    /\ mcp.request.method
          \notin {"tools/list", "tools/call", "initialize",
                  "execute_action_on_desktop"}
    /\ Answer(ErrorResponse(req_id, -32601), 0, <<>>)

\* tools/call of "screenshot"
McpScreenshot ==
    /\ mcp.pc = "request"
    /\ mcp.request.method = "tools/call"
    /\ tool_name = "screenshot"
    /\ Answer(ResultResponse(req_id, NoText, None, "absent",
                             <<"screenshot_path">>), 0, <<>>)

\* tools/call of a tool the server does not have
McpToolNotFound ==
    /\ mcp.pc = "request"
    /\ mcp.request.method = "tools/call"
    /\ tool_name \notin {"screenshot", "scroll_action", "predict_action"}
    /\ Answer(ErrorResponse(req_id, -32601), 0, <<>>)

\* tools/call of "scroll_action"; call_ok: the model call returns
McpScrollAction(text, call_ok, desktop) ==
    LET direction == Get(arguments, "direction", "up")
        amount == Get(arguments, "amount", 3)
        prediction_ == server_predict_action(text)
        predicted_action == prediction_.action
        th == prediction_.thinking
        key == IF direction = "up" THEN "pageup" ELSE "pagedown"
    IN  /\ mcp.pc = "request"
        /\ mcp.request.method = "tools/call"
        /\ tool_name = "scroll_action"
        /\ IF ScreenshotMissing(screenshot_path)
           THEN Answer(ErrorResponse(req_id, -32602), 0, <<>>)
           ELSE IF ~Readable(screenshot_path)
           THEN Answer(Fault("OSError"), 0, <<>>)
           ELSE IF ~call_ok
           THEN Answer(Fault("APIConnectionError"), 1, <<>>)
           ELSE IF ~Truthy(predicted_action)
                     \/ ~Has(predicted_action, "coordinate")
           THEN Answer(ResultResponse(req_id, th, None, "False",
                         <<"Failed to predict scroll position from screenshot">>),
                       1, <<>>)
           ELSE IF NameError("pyautogui")
           THEN Answer(Fault("NameError"), 1, <<>>)
           ELSE IF desktop # "ok" \/ NameError("time")
           THEN Answer(ResultResponse(req_id, th, None, "False",
                                      <<"error">>), 1, <<>>)
           ELSE Answer(ResultResponse(req_id, th, None, "True",
                         <<"Clicked for focus, then scrolled", direction,
                           page_presses(amount), key>>),
                       1,
                       <<"moveTo", "click">>
                          \o Presses(key, page_presses(amount)))

\* tools/call of "predict_action"
McpPredictAction(text, call_ok, desktop, clipboard_ok) ==
    LET prediction_ == server_predict_action(text)
        action == prediction_.action
        th == prediction_.thinking
        action_type == Get(action, "action", NoneStr)
        executed == execute_action_on_desktop(action, desktop, clipboard_ok)
    IN  /\ mcp.pc = "request"
        /\ mcp.request.method = "tools/call"
        /\ tool_name = "predict_action"
        /\ IF ScreenshotMissing(screenshot_path)
           THEN Answer(ErrorResponse(req_id, -32602), 0, <<>>)
           ELSE IF ~Readable(screenshot_path)
           THEN Answer(Fault("OSError"), 0, <<>>)
           ELSE IF ~call_ok
           THEN Answer(Fault("APIConnectionError"), 1, <<>>)
           ELSE IF ~Truthy(action)
           THEN Answer(ResultResponse(req_id, th, action, "False",
                                      <<"No valid action predicted">>),
                       1, <<>>)
           ELSE IF action_type \in ExecutedTypes
           THEN IF executed.raised
                THEN Answer(ResultResponse(req_id, th, action, "False",
                                           <<"Execution failed">>), 1, <<>>)
                ELSE Answer(ResultResponse(req_id, th, action, "True",
                                           executed.result),
                            1, executed.ops)
           ELSE IF action_type = "scroll"
           THEN Answer(ResultResponse(req_id, th, action, "False",
                         <<"Position predicted for scroll_action tool">>),
                       1, <<>>)
           ELSE IF action_type \in {"answer", "terminate"}
           THEN Answer(ResultResponse(req_id, th, action, "True",
                                      <<"Task action", action_type>>),
                       1, <<>>)
           ELSE Answer(ResultResponse(req_id, th, action, "False",
                                      <<"Action not executed", action_type>>),
                       1, <<>>)

\* execute_action_on_desktop called by itself
McpExecuteOnDesktop(desktop, clipboard_ok) ==
    LET executed == execute_action_on_desktop(mcp.request.params, desktop,
                                              clipboard_ok)
    IN  /\ mcp.pc = "request"
        /\ mcp.request.method = "execute_action_on_desktop"
        /\ Answer(IF executed.raised THEN Fault("ImportError")
                  ELSE ResultResponse("none", NoText, mcp.request.params,
                                      "absent", executed.result),
                  0, executed.ops)

McpNext ==
    \/ McpToolsList
    \/ McpInitialize
    \/ McpMethodNotFound
    \/ McpScreenshot
    \/ McpToolNotFound
    \/ \E text \in HttpTexts, call_ok \in BOOLEAN, desktop \in Desktops :
          McpScrollAction(text, call_ok, desktop)
    \/ \E text \in HttpTexts, call_ok \in BOOLEAN, desktop \in Desktops,
          clipboard_ok \in BOOLEAN :
          McpPredictAction(text, call_ok, desktop, clipboard_ok)
    \/ \E desktop \in Desktops, clipboard_ok \in BOOLEAN :
          McpExecuteOnDesktop(desktop, clipboard_ok)

McpSpec == McpInit /\ [][McpNext]_vars

----------------------------------------------------------------------------
(* The one-shot agent: run(instruction, screenshot, execute, confirm).     *)

\* _launch: the name is a key of app_commands, or holds one, or is held by
\* one ("n", and the empty name, are held by "notepad")
AppMatches(app_name) == app_name \in {<<>>, <<"n">>}

\* the operations _execute_action performs on the desktop, and whether it
\* ends in an exception of its own imports.  _type reads pyperclip, a name
\* the module does not bind, so its clipboard branch always falls through
\* to pyautogui.write.
OneShot_execute_action(action, desktop) ==
    LET action_type == Get(action, "action", NoneStr)
        done(result, ops) == [raised |-> FALSE, result |-> result, ops |-> ops]
        error == done(<<"Error executing", action_type>>, <<>>)
    IN  IF desktop = "no_module"
        THEN [raised |-> TRUE, result |-> <<"ImportError">>, ops |-> <<>>]
        ELSE IF action_type \in {"click", "scroll"}
        THEN IF \/ ~Has(action, "coordinate")
                \/ Len(Get(action, "coordinate", <<>>)) # 2
                \/ desktop = "fails"
             THEN error
             ELSE done(_execute_action(action, 0),
                       IF action_type = "click" THEN <<"moveTo", "click">>
                       ELSE <<"scroll">>)
        ELSE IF action_type = "type"
        THEN IF ~Has(action, "text") \/ desktop = "fails" THEN error
             ELSE done(_execute_action(action, 0), <<"write">>)
        ELSE IF action_type = "launch"
        THEN IF AppMatches(Lower(Strip(Get(action, "text", <<>>))))
             THEN done(_execute_action(action, 0), <<"Popen">>)
             ELSE done(<<"Unknown app">>, <<>>)
        ELSE IF action_type = "wait"
        THEN done(_execute_action(action, 0), <<"sleep">>)
        ELSE done(_execute_action(action, 0), <<>>)

\* a prompt that takes everything but "n" for consent
UserAgrees_notNo(user_input) == Lower(Strip(user_input)) # <<"n">>

\* "user_input = input(...).strip().lower()", "if user_input != 'y'" negated
UserAgrees(user_input) == Lower(Strip(user_input)) = <<"y">>

\* what the user may type at the prompt
UserInputs ==
    {<<"y">>, <<"Y">>, <<" ", "y", "\n">>, <<"n">>, <<"y", "e", "s">>, <<>>}

\* the texts the model may answer the one-shot agent with
OneShotTexts ==
    {Direct(Ok, a) : a \in HttpActions}
      \cup {NoBlock, RawText("thinking", Ok, "<invoke>", BadJson),
            RawText("none", <<>>, "<invoke>", Json([action |-> "wait"])),
            Direct(Ok, EmptyMap)}

\* run is called on a new agent
RunInit ==
    /\ AgentInit
    /\ main = NoMain
    /\ mcp = NoMcp
    /\ \E save_screenshots \in BOOLEAN, execute \in BOOLEAN,
          confirm \in BOOLEAN :
          run = [NoRun EXCEPT !.pc = "call",
                              !.save_screenshots = save_screenshots,
                              !.execute = execute, !.confirm = confirm]

\* run; call_ok: the model call returns
Run(text, call_ok, user_input, desktop) ==
    LET saved_path == IF run.save_screenshots THEN "step_001" ELSE "absent"
        call_count == run.call_count + (IF run.save_screenshots THEN 1 ELSE 0)
        parsed == OneShot_parse_response(text)
        predicted == [NoResult EXCEPT !.thinking = parsed.thinking,
                                      !.action = parsed.action,
                                      !.raw_output = text,
                                      !.screenshot_path = saved_path]
        action == predicted.action
        exec_result == OneShot_execute_action(action, desktop)
        typed(asked) == IF asked = 1 THEN user_input ELSE NoText
        returns(result, asked, executions, ops) ==
            run' = [run EXCEPT !.pc = "done", !.call_count = call_count,
                               !.result = result, !.asked = asked,
                               !.user_input = typed(asked),
                               !.executions = executions, !.ops = ops]
        raises(exception, asked, executions) ==
            run' = [run EXCEPT !.pc = "done", !.call_count = call_count,
                               !.raised = exception, !.asked = asked,
                               !.user_input = typed(asked),
                               !.executions = executions]
        asks == run.execute /\ run.confirm
    IN  /\ run.pc = "call"
        /\ IF ~call_ok THEN raises("APIConnectionError", 0, 0)
           ELSE IF ~Truthy(action) THEN returns(predicted, 0, 0, <<>>)
           ELSE IF ~run.execute
           THEN returns([predicted EXCEPT !.executed = "False"], 0, 0, <<>>)
           ELSE IF run.confirm /\ ~UserAgrees(user_input)
           THEN returns([predicted EXCEPT !.executed = "False",
                                          !.result = <<"Skipped by user">>],
                        1, 0, <<>>)
           ELSE IF exec_result.raised
           THEN raises("ImportError", IF asks THEN 1 ELSE 0, 1)
           ELSE returns([predicted EXCEPT !.executed = "True",
                                          !.result = exec_result.result],
                        IF asks THEN 1 ELSE 0, 1, exec_result.ops)
        /\ UNCHANGED <<steps, task_goal, pc, instruction, obs, messages,
                       attempt, thinking, prediction, action_json, ret,
                       pre_steps, pre_goal, sent, cand, blocked, first_instr,
                       first_set, exhausted, main, mcp>>

RunNext ==
    \E text \in OneShotTexts, call_ok \in BOOLEAN, user_input \in UserInputs,
       desktop \in Desktops :
       Run(text, call_ok, user_input, desktop)

RunSpec == RunInit /\ [][RunNext]_vars

----------------------------------------------------------------------------
(* The example's task loop for one instruction: the inner while of main.   *)
(* The model proposes one action and repeats it, or ends the task, or      *)
(* fails.                                                                  *)

\* "max_steps = 20"
max_steps == 20

\* proposals the model may repeat: a click, a type, and a type of action
\* no handler knows
Repeatable ==
    { Direct(Ok, Click(Hundredths(50), Hundredths(50))),
      Direct(Ok, [action |-> "wait", duration |-> Num(1)]),
      Direct(Ok, [action |-> "hotkey", text |-> <<"a">>]) }

\* answers that end the task, and a text that does not parse
Stoppers ==
    { Direct(Ok, [action |-> "terminate", status |-> "success"]),
      Direct(Ok, [action |-> "answer", text |-> <<"a">>]),
      RawText("thinking", Ok, "<invoke>", BadJson) }

\* what the model answers in the task: its first proposal again, or an end
ExampleResponses(ss) ==
    (IF ss = <<>> THEN Repeatable ELSE {ss[1].prediction}) \cup Stoppers

\* an instruction was typed: the loop is at its test
ExampleInit ==
    /\ AgentInit
    /\ mcp = NoMcp
    /\ run = NoRun
    /\ main = [NoMain EXCEPT !.pc = "while"]

\* "while step_count < max_steps" holds: screenshot and agent.predict
MainPredict ==
    /\ main.pc = "while"
    /\ main.step_count < max_steps
    /\ BeginCycle(<<"a">>,
                  [screenshot |-> Shot(Len(steps)),
                   execution_result |-> main.last_execution_result])
    /\ main' = [main EXCEPT !.pc = "predict"]

\* a loop body that goes on after a failed prediction
MainStep_ignoresFailure ==
    LET action == ret.action
        action_type == Get(action, "action", NoneStr)
        result == execute_action(action, Len(steps) - 1)
    IN  /\ main.pc = "predict"
        /\ pc = "idle"
        /\ main' = IF action_type \in {"terminate", "answer"}
                   THEN [main EXCEPT !.pc = "done", !.step_count = @ + 1]
                   ELSE [main EXCEPT !.pc = "while", !.step_count = @ + 1,
                                     !.last_execution_result = result]
        /\ UNCHANGED <<steps, task_goal, pc, instruction, obs, messages,
                       attempt, thinking, prediction, action_json, ret,
                       pre_steps, pre_goal, sent, cand, blocked, first_instr,
                       first_set, exhausted, mcp, run>>

\* the loop body after predict returned: count, the two breaks, execute
MainStep ==
    LET action == ret.action
        action_type == Get(action, "action", NoneStr)
        result == execute_action(action, Len(steps) - 1)
    IN  /\ main.pc = "predict"
        /\ pc = "idle"
        /\ main' = IF action = None \/ action_type = NoneStr
                   THEN [main EXCEPT !.pc = "done", !.step_count = @ + 1]
                   ELSE IF action_type \in {"terminate", "answer"}
                   THEN [main EXCEPT !.pc = "done", !.step_count = @ + 1]
                   ELSE [main EXCEPT !.pc = "while", !.step_count = @ + 1,
                                     !.last_execution_result = result]
        /\ UNCHANGED <<steps, task_goal, pc, instruction, obs, messages,
                       attempt, thinking, prediction, action_json, ret,
                       pre_steps, pre_goal, sent, cand, blocked, first_instr,
                       first_set, exhausted, mcp, run>>

\* "while step_count < max_steps" fails
MainExit ==
    /\ main.pc = "while"
    /\ ~(main.step_count < max_steps)
    /\ main' = [main EXCEPT !.pc = "done"]
    /\ UNCHANGED <<steps, task_goal, pc, instruction, obs, messages, attempt,
                   thinking, prediction, action_json, ret, pre_steps,
                   pre_goal, sent, cand, blocked, first_instr, first_set,
                   exhausted, mcp, run>>

ExampleNext ==
    \/ MainPredict
    \/ AttemptCallFails
    \/ \E resp \in ExampleResponses(steps) : AttemptParseFails(resp)
    \/ \E resp \in ExampleResponses(steps) : AttemptAccepted(resp)
    \/ \E resp \in ExampleResponses(steps) : AttemptDuplicate(resp)
    \/ PredictFail
    \/ PredictPersist
    \/ MainStep
    \/ MainExit

\* the loop runs on: every call returns or raises
ExampleSpec == ExampleInit /\ [][ExampleNext]_vars /\ WF_vars(ExampleNext)

----------------------------------------------------------------------------
(* Claims *)

\* the last cycle returned ("llm client error", {"action": None})
ReturnedSentinel(r) ==
    /\ r.prediction = ErrorText
    /\ r.action = [action |-> NoneStr]

\* C1: when all 3 attempts of a cycle failed (the call raised or the parse
\* raised), predict has returned the failure sentinel, a diagnostic message
\* and an action whose value is null, and the trajectory has as many steps
\* as before the cycle.
C1_RetryExhaustion ==
    (pc = "idle" /\ exhausted)
        => /\ ReturnedSentinel(ret)
           /\ Len(steps) = Len(pre_steps)

\* a cycle that failed 3 times on a trajectory that holds a step
C1_Witness ==
    /\ pc = "idle"
    /\ exhausted
    /\ Len(pre_steps) = 1
    /\ ReturnedSentinel(ret)

\* C2: with no reset in between, the trajectory grows by exactly one step on
\* every successful cycle, by none on a failed cycle, nothing else changes
\* it, and it never shrinks.
C2_GrowsByOnePerCycle ==
    [][ /\ (pc = "after" /\ pc' = "idle")
            => IF ReturnedSentinel(ret')
               THEN steps' = steps
               ELSE /\ Len(steps') = Len(steps) + 1
                    /\ SubSeq(steps', 1, Len(steps)) = steps
        /\ (pc = "loop" \/ pc' = "loop") => steps' = steps
        /\ Len(steps') < Len(steps) => (pc = "idle" /\ pc' = "idle")
      ]_vars

\* a successful cycle on a trajectory with a step
C2_Witness ==
    /\ pc = "idle"
    /\ ~ReturnedSentinel(ret)
    /\ Len(pre_steps) = 1
    /\ Len(steps) = 2

\* C3: a cycle calls the model at most 3 times; every call is given the
\* message list built once, before the first attempt, from the trajectory as
\* it was; every failure consumes exactly one attempt; the first attempt
\* that parses ends the loop.
C3_BoundedRetriesSamePrompt ==
    /\ Len(sent) <= max_retries
    /\ pc \in {"loop", "after"}
         => \A i \in 1..Len(sent) :
               /\ sent[i] = messages
               /\ sent[i] = _build_messages(instruction, pre_steps,
                                            Shot(Len(pre_steps)))
    /\ pc = "loop" => (Len(sent) = attempt /\ attempt < max_retries)
    /\ pc = "after"
         => IF prediction = None \/ action_json = None
            THEN Len(sent) = max_retries /\ attempt = max_retries
            ELSE Len(sent) = attempt + 1 /\ attempt < max_retries

\* a cycle that succeeded on its third call, with history in the prompt
C3_Witness ==
    /\ pc = "after"
    /\ Len(sent) = max_retries
    /\ prediction # None
    /\ Len(pre_steps) = 1

\* C4 as claimed: a cycle that failed 3 times leaves the step sequence and
\* the task goal as they were before the cycle.
C4_Original ==
    (pc = "idle" /\ exhausted)
        => (steps = pre_steps /\ task_goal = pre_goal)

\* C4 amended: a cycle that failed 3 times leaves the step sequence as it
\* was; the task goal is as it was if it was set, and is the instruction of
\* the failed cycle if it was not.
C4_FailedCycleFrame ==
    [][ (pc = "after" /\ pc' = "idle" /\ exhausted)
            => /\ steps' = pre_steps
               /\ task_goal' = IF pre_goal = <<>> THEN instruction
                               ELSE pre_goal
      ]_vars

\* a failed first cycle has set the goal
C4_Witness ==
    /\ pc = "idle"
    /\ exhausted
    /\ pre_goal = <<>>
    /\ task_goal = <<"a">>

\* the step with index n (from 0) of a trajectory
StepAt(ss, n) == ss[n + 1]

\* C5 as claimed: when the observation of a cycle carries the result of the
\* action of the last step, that string is in the feedback field of that
\* step before the prompt is built, and the prompt shows it directly after
\* the assistant turn of that step; the step the cycle creates does not
\* take it.
C5_Original ==
    LET n == Len(pre_steps) - 1
    IN  /\ (pc \in {"loop", "after"} /\ n >= 0
              /\ obs.execution_result = Res(n))
            => /\ StepAt(steps, n).conclusion = Res(n)
               /\ \E i \in 1..(Len(messages) - 1) :
                     /\ messages[i] = AssistantMsg(StepAt(steps, n))
                     /\ messages[i + 1] = FeedbackMsg(Res(n))
        /\ \A i \in 0..(Len(steps) - 1) :
              StepAt(steps, i).conclusion \in {<<>>, Res(i)}

\* C6 as claimed: after the first call since a reset the task goal is the
\* instruction of that call, whatever the later calls carry.
C6_Original ==
    first_instr # NoText => task_goal = first_instr

\* C6 amended: the task goal is the instruction of the first call since the
\* reset that carried a non-empty instruction, whatever the later calls
\* carry; it is empty as long as no call carried one.
C6_FirstNonEmptyWins ==
    task_goal = IF first_set = NoText THEN <<>> ELSE first_set

\* a later call with another instruction has left the goal alone
C6_Witness ==
    /\ pc = "loop"
    /\ Len(steps) = 1
    /\ first_instr = <<"a">>
    /\ instruction = <<"b">>
    /\ task_goal = <<"a">>

\* two unit coordinates closer than 0.03
Near(c1, c2) ==
    LET limit == 3 * (Den \div 100)
        dx == Abs(c1[1] - c2[1])
        dy == Abs(c1[2] - c2[2])
    IN  /\ dx < limit
        /\ dy < limit
        /\ (dx * dx) + (dy * dy) < limit * limit

\* the same effective action, as the guard's contract states it; a launch
\* without a target is read as a launch of the empty target
SameEffective(a, b) ==
    /\ Has(a, "action")
    /\ Has(b, "action")
    /\ a.action = b.action
    /\ \/ /\ a.action = "click"
          /\ Has(a, "coordinate")
          /\ Has(b, "coordinate")
          /\ Near(a.coordinate, b.coordinate)
       \/ /\ a.action = "type"
          /\ Has(a, "text")
          /\ Has(b, "text")
          /\ a.text = b.text
          /\ a.text # <<>>
       \/ /\ a.action = "launch"
          /\ Lower(Get(a, "text", <<>>)) = Lower(Get(b, "text", <<>>))

\* C7: no two consecutive steps of the trajectory hold the same effective
\* action: two clicks closer than 0.03, two types of the same non-empty
\* text, two launches of the same target ignoring case.
C7_NoAdjacentDuplicates ==
    \A i \in 1..(Len(steps) - 1) :
        ~SameEffective(steps[i].action, steps[i + 1].action)

\* a launch of "n" after a launch of "N" was stored as a wait
C7_Witness ==
    /\ pc = "idle"
    /\ Len(steps) = 2
    /\ Get(steps[1].action, "action", "") = "launch"
    /\ cand = [action |-> "launch", text |-> <<"n">>]
    /\ steps[2].action = WaitAction

LastAction(ss) == ss[Len(ss)].action

\* C8: the guard's verdict on a candidate is "duplicate" exactly when the
\* trajectory holds a step and the candidate is the same effective action
\* as the action of the last step; a click at [0.51,0.51] after one at
\* [0.50,0.50] is a duplicate, one at [0.60,0.60] is not.
C8_GuardVerdictExact ==
    cand # None
      => /\ blocked <=> (pre_steps # <<>>
                          /\ SameEffective(LastAction(pre_steps), cand))
         /\ (/\ pre_steps # <<>>
             /\ LastAction(pre_steps)
                  = Click(Hundredths(50), Hundredths(50))
             /\ cand = Click(Hundredths(51), Hundredths(51))) => blocked
         /\ (/\ pre_steps # <<>>
             /\ LastAction(pre_steps)
                  = Click(Hundredths(50), Hundredths(50))
             /\ cand = Click(Hundredths(60), Hundredths(60))) => ~blocked

\* a click at exactly 0.03 from the last click was let through
C8_Witness ==
    /\ pc = "after"
    /\ steps # <<>>
    /\ LastAction(steps) = Click(Hundredths(50), Hundredths(50))
    /\ cand = Click(Hundredths(53), Hundredths(50))
    /\ ~blocked

\* C9: a detected duplicate ends the cycle with success on that attempt: no
\* further model call, the returned action is the wait of fixed duration and
\* not the candidate, and exactly one step is appended, holding that wait.
C9_DuplicateEndsCycleWithWait ==
    LET wait == [action |-> "wait", duration |-> Num(2)]
    IN  blocked
          => /\ pc \in {"after", "idle"}
             /\ pc = "after"
                  => /\ prediction # None
                     /\ action_json = wait
                     /\ Len(sent) = attempt + 1
             /\ pc = "idle"
                  => /\ ret.action = wait
                     /\ ret.action # cand
                     /\ Len(steps) = Len(pre_steps) + 1
                     /\ SubSeq(steps, 1, Len(pre_steps)) = pre_steps
                     /\ steps[Len(steps)].action = wait

\* a duplicate ended the cycle
C9_Witness ==
    /\ pc = "idle"
    /\ blocked
    /\ Len(steps) = 2
    /\ ret.action = WaitAction

\* a text that holds the guard's note
Annotated(t) == \E i \in 1..Len(t) : t[i] = BlockNote

\* C10 as claimed: after a substitution the reasoning text of the new step
\* and the assistant turn rendered from that step both carry the note.
C10_Original ==
    (pc = "idle" /\ blocked)
        => /\ Annotated(steps[Len(steps)].thought)
           /\ Annotated(mem2response(steps[Len(steps)]).thinking)

\* the fields of a step that no later call may change
Frozen(step) ==
    <<step.step_index, step.screenshot, step.prediction, step.thought,
      step.action>>

\* C11 as claimed: a step that is in the trajectory keeps its index,
\* screenshot, raw model output, reasoning and action; its feedback field,
\* once it holds a text, keeps it; and a step is appended with an empty
\* feedback field.
C11_Original ==
    [][ /\ \A i \in 1..Len(steps) :
              i <= Len(steps')
                => /\ Frozen(steps'[i]) = Frozen(steps[i])
                   /\ steps[i].conclusion # <<>>
                        => steps'[i].conclusion = steps[i].conclusion
        /\ Len(steps') = Len(steps) + 1
              => steps'[Len(steps')].conclusion = <<>>
      ]_vars

\* a mapping without discriminator, a click without coordinate, a type
\* without text
Malformed(a) ==
    \/ ~Has(a, "action")
    \/ a.action = "click" /\ ~Has(a, "coordinate")
    \/ a.action = "type" /\ ~Has(a, "text")

\* C12 as claimed: a malformed mapping is a failed attempt: it is never the
\* candidate of a successful attempt, never the action of a step and never
\* the action a cycle returns.
C12_Original ==
    /\ cand # None => ~Malformed(cand)
    /\ \A i \in 1..Len(steps) : ~Malformed(steps[i].action)
    /\ ret.action # None => ~Malformed(ret.action)

\* the mapping a well-formed response carries on the wire
Wire(text) ==
    IF Has(text.body.obj, "arguments") THEN text.body.obj.arguments
    ELSE text.body.obj

\* an action with a discriminator that no executor has a handler for
UnknownVariant(a) ==
    /\ Has(a, "action")
    /\ a.action \notin
         {"click", "double_click", "drag", "scroll", "type", "launch",
          "wait", "terminate", "answer"}

Plain(text) ==
    /\ text.think = "thinking"
    /\ text.open = "<invoke>"
    /\ text.body.json = "ok"

\* a reasoning block and an action block whose body is not JSON
MalformedBody(text) ==
    /\ text.think = "thinking"
    /\ text.open = "<invoke>"
    /\ text.body.json = "bad"

\* neither a reasoning block nor an action block
NoBlockAtAll(text) == text.think = "none" /\ text.open = "none"

\* C14 as claimed: no parser raises; on a reasoning block with a malformed
\* JSON body the action is null and the reasoning is the extracted one; on
\* a text without any block both are null.
C14_Original ==
    /\ (pc \in {"parsed", "raised", "oneshot", "http"}
          /\ MalformedBody(prediction))
         => /\ pc # "raised"
            /\ action_json = None
            /\ thinking = Strip(prediction.r)
    /\ (pc \in {"parsed", "raised", "oneshot", "http"}
          /\ NoBlockAtAll(prediction))
         => /\ pc # "raised"
            /\ action_json = None
            /\ thinking = NoText

\* C14 amended: the one-shot and the HTTP parser report failures as values
\* (malformed body: null action with the extracted reasoning; no block:
\* both null).  The navigation agent's parser raises on both texts:
\* parse_tagged_text raises on the malformed body, and returns null for
\* both fields on a text without block, on which
\* parse_action_to_structure_output then raises.
C14_ValuesOrRaise ==
    /\ (pc \in {"oneshot", "http"} /\ MalformedBody(prediction))
         => (action_json = None /\ thinking = Strip(prediction.r))
    /\ (pc \in {"oneshot", "http"} /\ NoBlockAtAll(prediction))
         => (action_json = None /\ thinking = NoText)
    /\ (pc \in {"parsed", "raised"} /\ MalformedBody(prediction))
         => (pc = "raised" /\ parse_tagged_text(prediction).raised)
    /\ (pc \in {"parsed", "raised"} /\ NoBlockAtAll(prediction))
         => /\ pc = "raised"
            /\ ~parse_tagged_text(prediction).raised
            /\ parse_tagged_text(prediction).thinking = NoText
            /\ parse_tagged_text(prediction).tool_call = None

\* the one-shot parser returned the reasoning and a null action
C14_Witness ==
    /\ pc = "oneshot"
    /\ MalformedBody(prediction)
    /\ thinking = Ok
    /\ action_json = None

\* an integer of the scaled space, 0..999
ScaledInt(v) == v % Den = 0 /\ (v \div Den) \in 0..999

ScaledIntPair(c) == Len(c) = 2 /\ ScaledInt(c[1]) /\ ScaledInt(c[2])

InUnitSquare(c) == \A i \in 1..Len(c) : 0 <= c[i] /\ c[i] <= Den

\* [x / 999, y / 999]
Divided(c) == <<c[1] \div 999, c[2] \div 999>>

UnitIfSmall(v) == IF Abs(v) <= (3 * Den) \div 2 THEN v ELSE v \div 999

\* C16 as claimed: each of the three parsers keeps a value of a pair whose
\* magnitude is at most 1.5 and divides every other value by 999.
C16_Original ==
    \A k \in CoordKeys :
        (/\ pc \in {"parsed", "oneshot", "http"}
         /\ Plain(prediction)
         /\ Has(Wire(prediction), k)
         /\ Len(Wire(prediction)[k]) = 2)
          => LET c == Wire(prediction)[k]
             IN  action_json[k] = <<UnitIfSmall(c[1]), UnitIfSmall(c[2])>>

\* the arguments of the assistant turn rendered from the stored step
Rendered == messages[3].response.arguments

\* C17 as claimed: a pair of scaled integers emitted in a coordinate field
\* is, after parsing and rendering of the step, the same pair of integers
\* in the assistant turn.
C17_Original ==
    \A k \in CoordKeys :
        (/\ pc = "rendered"
         /\ Plain(steps[1].prediction)
         /\ Has(Wire(steps[1].prediction), k)
         /\ ScaledIntPair(Wire(steps[1].prediction)[k]))
          => Rendered[k] = Wire(steps[1].prediction)[k]

\* one unit of the scaled space, 1/999
ScaleUnit == Den \div 999

\* C18 as claimed: a unit value of a stored pair, rendered to the scaled
\* space and parsed back, is within 1/999 of the stored value.
C18_Original ==
    \A k \in CoordKeys :
        (/\ pc = "reparsed"
         /\ Has(steps[1].action, k)
         /\ InUnitSquare(steps[1].action[k]))
          => \A i \in 1..2 :
                Abs(action_json[k][i] - steps[1].action[k][i]) <= ScaleUnit

\* C18 amended: a stored unit pair of which one value is at least 2/999
\* comes back within 1/999 in both values; of a pair whose values are all
\* below 2/999 the rendering holds only 0 and 1, which are read back as the
\* unit values 0 and 1.
C18_RoundTrip ==
    \A k \in CoordKeys :
        (/\ pc = "reparsed"
         /\ Has(steps[1].action, k)
         /\ InUnitSquare(steps[1].action[k]))
          => LET c == steps[1].action[k]
                 back == action_json[k]
             IN  /\ Len(back) = 2
                 /\ IF c[1] >= 2 * ScaleUnit \/ c[2] >= 2 * ScaleUnit
                    THEN \A i \in 1..2 : Abs(back[i] - c[i]) <= ScaleUnit
                    ELSE \A i \in 1..2 :
                            back[i] = IF c[i] >= ScaleUnit THEN Den ELSE 0

\* the unit pair [0.5, 0.5] came back as [499/999, 499/999]
C18_Witness ==
    /\ pc = "reparsed"
    /\ steps[1].action = Click(Den \div 2, Den \div 2)
    /\ Rendered = Click(499 * Den, 499 * Den)
    /\ action_json = Click(499 * ScaleUnit, 499 * ScaleUnit)

\* C19 as claimed: a list of 4 values in a coordinate field gives, in the
\* navigation agent's parser and in the one-shot parser, the 2 values that
\* the pair of its mid points gives.
C19_Original ==
    \A k \in CoordKeys :
        (/\ pc \in {"parsed", "oneshot"}
         /\ Plain(prediction)
         /\ Has(Wire(prediction), k)
         /\ Len(Wire(prediction)[k]) = 4)
          => LET c == Wire(prediction)[k]
                 mid == <<(c[1] + c[3]) \div 2, (c[2] + c[4]) \div 2>>
                 pair == Direct(prediction.r,
                                [Wire(prediction) EXCEPT ![k] = mid])
                 expected ==
                     IF pc = "parsed"
                     THEN parse_action_to_structure_output(pair).action_json
                     ELSE OneShot_parse_response(pair).action
             IN  /\ Len(action_json[k]) = 2
                 /\ action_json[k] = expected[k]

\* a text the navigation agent's parser reads an action mapping from
NavReadable(text) == Plain(text) /\ Has(text.body.obj, "action")

\* a coordinate field whose list has neither 2 nor 4 values
HasOddList(a) == \E k \in CoordKeys : Has(a, k) /\ Len(a[k]) \notin {2, 4}

\* C20 as claimed: no parser raises on a coordinate list, and a list of
\* neither 2 nor 4 values is in the result as it was given.
C20_Original ==
    (/\ pc \in {"parsed", "raised", "oneshot", "http"}
     /\ NavReadable(prediction)
     /\ HasOddList(Wire(prediction)))
      => /\ pc # "raised"
         /\ \A k \in CoordKeys :
               (Has(Wire(prediction), k)
                  /\ Len(Wire(prediction)[k]) \notin {2, 4})
                 => action_json[k] = Wire(prediction)[k]

\* C20 amended: the navigation agent's parser raises exactly on a
\* coordinate list of neither 2 nor 4 values.  The HTTP and the one-shot
\* normaliser never raise: a list of fewer than 2 values, or whose first 2
\* values are both at most 1.5, stays as given; any longer list is cut to
\* its first 2 values, each divided if above 1.5.  The renderer leaves a list
\* of neither 2 nor 4 values as given.
C20_RaiseOrCut ==
    /\ (pc \in {"parsed", "raised"} /\ NavReadable(prediction))
         => (pc = "raised" <=> HasOddList(Wire(prediction)))
    /\ \A k \in CoordKeys :
          (/\ pc \in {"oneshot", "http"}
           /\ Plain(prediction)
           /\ Has(Wire(prediction), k))
            => LET c == Wire(prediction)[k]
                   small(v) == 2 * v <= 3 * Den
                   each(v) == IF small(v) THEN v ELSE v \div 999
               IN  action_json[k]
                     = IF Len(c) < 2 \/ (small(c[1]) /\ small(c[2])) THEN c
                       ELSE <<each(c[1]), each(c[2])>>
    /\ \A c \in OddLists : convert_coord(c) = c

\* the navigation agent's parser raised on a list of 3 values
C20_Witness ==
    /\ pc = "raised"
    /\ NavReadable(prediction)
    /\ Wire(prediction).coordinate = <<500 * Den, 500 * Den, 7 * Den>>

\* the canonical form <thinking>r</thinking><invoke>body</invoke> of a text
\* that uses tolerated variants
CanonicalForm(text) ==
    Direct(text.r, IF Has(text.body.obj, "arguments")
                   THEN text.body.obj.arguments ELSE text.body.obj)

\* C21 as claimed: a text that closes the reasoning with the alternate end
\* marker, opens the action block with the closing marker or wraps the body
\* in "arguments" parses to the reasoning and the action of its canonical
\* form, for every body that is an action mapping.
C21_Original ==
    (/\ pc \in {"parsed", "raised"}
     /\ prediction.think \in {"thinking", "think"}
     /\ prediction.open \in {"<invoke>", "</invoke>"}
     /\ prediction.body.json = "ok"
     /\ Has(CanonicalForm(prediction).body.obj, "action"))
      => LET canon == parse_action_to_structure_output(
                          CanonicalForm(prediction))
         IN  /\ (pc = "raised") <=> canon.raised
             /\ pc = "parsed"
                  => /\ thinking = canon.thinking
                     /\ action_json = canon.action_json


----------------------------------------------------------------------------
(* C22 *)

\* the assistant turns of a message list
AssistantTurns(msgs) ==
    Cardinality({i \in 1..Len(msgs) : msgs[i].role = "assistant"})

\* C22 (as stated): however many steps the trajectory holds, the prompt
\* built for a cycle holds at most history_n assistant turns.
C22_Original ==
    pc \in {"loop", "after"} => AssistantTurns(messages) <= history_n

----------------------------------------------------------------------------
(* C26 *)

\* a stored step whose action the guard replaced
Substituted(step) == step.prediction.tail = BlockNote

\* C26: the guard looks at the last stored step only.  A step the guard
\* replaced holds the wait and never follows another replaced step; in the
\* cycle after a replaced step the proposal is not blocked, and it is
\* returned and stored as it was parsed.
C26_BlockedAtMostEveryOther ==
    /\ \A i \in 1..Len(steps) :
          Substituted(steps[i]) =>
             /\ steps[i].action = WaitAction
             /\ i > 1 => ~Substituted(steps[i - 1])
    /\ (/\ pc = "after"
        /\ Len(steps) > 0
        /\ Substituted(steps[Len(steps)]))
          => ~blocked /\ action_json = cand
    /\ (/\ pc = "idle"
        /\ Len(steps) > 1
        /\ Substituted(steps[Len(steps) - 1]))
          => /\ ret.action = cand
             /\ steps[Len(steps)].action = cand

\* the same click is accepted, blocked, accepted and blocked again
C26_Witness ==
    /\ pc = "idle"
    /\ Len(steps) = 4
    /\ steps[1].action.action = "click"
    /\ ~Substituted(steps[1])
    /\ Substituted(steps[2])
    /\ steps[3].action = steps[1].action
    /\ ret.action = WaitAction
    /\ cand = steps[1].action


----------------------------------------------------------------------------
(* C25 *)

\* a text that holds a well-formed action block and no reasoning block
ActionOnly(text) ==
    /\ text.think = "none"
    /\ text.open = "<invoke>"
    /\ text.body.json = "ok"
    /\ Has(text.body.obj, "action")

\* C25 (as stated): a response with a well-formed action block and no
\* reasoning block is parsed to that action with the reasoning absent; no
\* parser raises on it.
C25_Original ==
    (pc \in {"parsed", "raised", "oneshot", "http"} /\ ActionOnly(prediction))
      => /\ pc # "raised"
         /\ thinking = NoText
         /\ Get(action_json, "action", NoneStr) = prediction.body.obj.action


----------------------------------------------------------------------------
(* C23 *)

\* the server answered (or failed on) a tools/call of the named tool
Called(name) ==
    /\ mcp.pc = "done"
    /\ mcp.request.method = "tools/call"
    /\ Get(mcp.request.params, "name", NoneStr) = name

\* the type of the action in the response, NoneStr when there is none
PredictedType == Get(mcp.response.predicted_action, "action", NoneStr)

\* C23: the predict_action tool operates the desktop only for a predicted
\* click, type or wait.  For every other type, and without an action, it
\* performs nothing and reports executed=false, except that answer and
\* terminate are reported executed=true with nothing performed.
C23_ExecutesClickTypeWaitOnly ==
    Called("predict_action") =>
       /\ mcp.ops # <<>> =>
             /\ mcp.response.kind = "result"
             /\ PredictedType \in {"click", "type", "wait"}
             /\ mcp.response.executed = "True"
       /\ (mcp.response.kind = "result"
             /\ PredictedType \notin {"click", "type", "wait"}) =>
             /\ mcp.ops = <<>>
             /\ mcp.response.executed =
                   (IF PredictedType \in {"answer", "terminate"}
                    THEN "True" ELSE "False")

\* a launch was predicted and nothing was done
C23_Witness ==
    /\ Called("predict_action")
    /\ mcp.response.kind = "result"
    /\ PredictedType = "launch"
    /\ mcp.response.executed = "False"
    /\ mcp.model_calls = 1
    /\ mcp.ops = <<>>

----------------------------------------------------------------------------
(* C27 *)

\* the screenshot_path of the request in hand
RequestPath ==
    Get(Get(mcp.request.params, "arguments", EmptyMap), "screenshot_path", "")

\* C27 (as stated): a scroll_action call with an existing screenshot file
\* ends in a JSON-RPC response that carries the request id, never in an
\* exception that leaves the handler.
C27_Original ==
    (Called("scroll_action") /\ RequestPath = "shot.png")
      => /\ mcp.response.kind \in {"result", "error"}
         /\ mcp.response.id = mcp.request.id

----------------------------------------------------------------------------
(* C28 *)

\* the page-key presses among the operations performed
PagePresses ==
    Cardinality({i \in 1..Len(mcp.ops) : mcp.ops[i] \in {"pageup", "pagedown"}})

\* C28 (as stated): a scroll presses the page key once for an amount of 1
\* to 3, twice for 4 to 6, three times for 7 to 10, and at least once for
\* every amount.
C28_Original ==
    (/\ mcp.pc = "done"
     /\ mcp.request.method = "execute_action_on_desktop"
     /\ Get(mcp.request.params, "action", NoneStr) = "scroll"
     /\ mcp.ops # <<>>)
      => LET amount == Get(mcp.request.params, "amount", 3)
         IN  /\ PagePresses >= 1
             /\ amount \in 1..3 => PagePresses = 1
             /\ amount \in 4..6 => PagePresses = 2
             /\ amount \in 7..10 => PagePresses = 3

----------------------------------------------------------------------------
(* C29 *)

\* C29: predict_action and scroll_action answer an empty screenshot_path,
\* and one that names nothing that exists, with the JSON-RPC error -32602
\* under the request's id; the model is not called and the desktop is not
\* touched.
C29_MissingScreenshotRefused ==
    ((Called("predict_action") \/ Called("scroll_action"))
       /\ RequestPath \in {"", "gone.png"})
      => /\ mcp.response.kind = "error"
         /\ mcp.response.code = -32602
         /\ mcp.response.id = mcp.request.id
         /\ mcp.model_calls = 0
         /\ mcp.ops = <<>>

\* a scroll_action call that names a file that is not there
C29_Witness ==
    /\ Called("scroll_action")
    /\ RequestPath = "gone.png"
    /\ mcp.response.kind = "error"
    /\ mcp.response.code = -32602
    /\ mcp.response.id = "2"


----------------------------------------------------------------------------
(* C24 *)

\* run returned a result
Returned == run.pc = "done" /\ run.raised = "none"

\* what the user typed, but for case and surrounding blanks, is y
AnsweredYes == Lower(Strip(run.user_input)) = <<"y">>

\* C24: run executes the predicted action exactly when execute is set, an
\* action was parsed and, with confirm set, the user answered y.  In every
\* other case nothing happens on the desktop and the result does not say
\* executed=true; no call executes more than one action.
C24_ExecutesIffAllowed ==
    /\ run.executions <= 1
    /\ run.executions = 0 =>
          run.ops = <<>> /\ run.result.executed # "True"
    /\ run.executions = 1 =>
          /\ run.execute
          /\ run.confirm => (run.asked = 1 /\ AnsweredYes)
    /\ Returned =>
          /\ run.executions = 1 <=>
                (/\ run.execute
                 /\ Truthy(run.result.action)
                 /\ run.confirm => AnsweredYes)
          /\ run.executions = 1 <=> run.result.executed = "True"

\* the user agreed to a predicted click, and the click was made
C24_Witness ==
    /\ Returned
    /\ run.execute
    /\ run.confirm
    /\ run.user_input = <<"Y">>
    /\ Get(run.result.action, "action", NoneStr) = "click"
    /\ run.result.executed = "True"
    /\ run.ops = <<"moveTo", "click">>


----------------------------------------------------------------------------
(* C30 *)

\* predict returned the failure sentinel, or an action that ends the task
EndsTask ==
    \/ ret = Sentinel
    \/ Get(ret.action, "action", NoneStr) \in {"terminate", "answer"}

\* C30: for one instruction the task loop runs at most 20 predict cycles,
\* leaves at the first failure sentinel and at the first terminate or
\* answer, starts no cycle once it has left, and does leave, also when the
\* model repeats one action or an unsupported one on every cycle.
C30_LoopTerminates ==
    /\ [](main.step_count <= 20 /\ Len(steps) <= 20)
    /\ [][ /\ (main.pc = "predict" /\ main'.pc # "predict" /\ EndsTask)
               => main'.pc = "done"
           /\ main.pc # "done"
           /\ (pc = "idle" /\ pc' = "loop") => main.step_count < 20 ]_vars
    /\ <>(main.pc = "done")

\* twenty cycles of the same click, every other one replaced by a wait
C30_Witness ==
    /\ main.pc = "done"
    /\ main.step_count = 20
    /\ Len(steps) = 20
    /\ steps[19].action.action = "click"
    /\ steps[20].action = WaitAction
    /\ Substituted(steps[20])

====
